---- MODULE Spec2Model ----
(***************************************************************************)
(* The chat proxy endpoint (api/chat.ts): method / credential / body       *)
(* guards, model resolution, the sequential fallback loop over             *)
(* (candidate, shape) pairs, the SSE relay and the final 502 response.     *)
(* The client's stream framer (src/lib/chatApi.ts, streamMistralReply):    *)
(* decoding, framing, frame classification and the callbacks it makes.     *)
(***************************************************************************)
EXTENDS Integers, Sequences, FiniteSets, TLC

\* Largest number of chunks an upstream event stream delivers in the model.
MaxChunks == 2

--------------------------------------------------------------------------
\* Static configuration

FAMILY_ALIASES ==
  ( "mistral-small-latest"    :> <<"mistral-small-latest", "mistral-small">>
 @@ "mistral-medium-latest"   :> <<"mistral-medium-latest", "mistral-medium">>
 @@ "mistral-large-latest"    :> <<"mistral-large-latest", "mistral-large">>
 @@ "codestral-latest"        :> <<"codestral-latest", "codestral">>
 @@ "pixtral-large-latest"    :> <<"pixtral-large-latest", "pixtral-large">>
 @@ "magistral-small-latest"  :> <<"magistral-small-latest", "magistral-small">>
 @@ "magistral-medium-latest" :> <<"magistral-medium-latest", "magistral-medium">>
 @@ "magistral-latest"        :> <<"magistral-medium-latest", "magistral-small-latest",
                                   "magistral-medium", "magistral-small">>
 @@ "devstral-small-latest"   :> <<"devstral-small-latest", "devstral-small">>
 @@ "devstral-medium-latest"  :> <<"devstral-medium-latest", "devstral-medium">>
 @@ "devstral-latest"         :> <<"devstral-medium-latest", "devstral-small-latest",
                                   "devstral-medium", "devstral-small">> )

PREFER_CHAT ==
  { "mistral-small-latest", "mistral-small",
    "mistral-medium-latest", "mistral-medium",
    "mistral-large-latest", "mistral-large",
    "codestral-latest", "codestral",
    "pixtral-large-latest", "pixtral-large",
    "magistral-small-latest", "magistral-small",
    "magistral-medium-latest", "magistral-medium",
    "magistral-latest",
    "devstral-small-latest", "devstral-small",
    "devstral-medium-latest", "devstral-medium",
    "devstral-latest" }

\* `model = "mistral-small-latest"` in the payload destructuring.
DEFAULT_MODEL == "mistral-small-latest"

\* payload.model === undefined
NoModel == "<undefined>"

\* Names every JavaScript object inherits from Object.prototype: the alias table
\* is an object literal, so FAMILY_ALIASES[name] finds them although they are
\* no keys of the table.
ObjectPrototypeKeys == {"constructor", "toString", "__proto__"}

\* Model names outside the alias table: the empty string, a differently cased
\* key, a bare candidate name (a PREFER_CHAT member that is no key), and an
\* inherited property name.
UnknownModels == {"", "Mistral-Small-Latest", "magistral-medium", "constructor"}

\* Model names a caller sends: a two-candidate alias, a four-candidate alias,
\* the names outside the table, and no name at all.
ModelInputs == {"codestral-latest", "magistral-latest"} \cup UnknownModels \cup {NoModel}

\* HTTP methods of the inbound request.
Methods == {"OPTIONS", "GET", "POST"}

\* What req.body evaluates to: undefined, "", a non-empty string holding JSON,
\* a non-empty string that is not JSON, or an object parsed by the platform.
BodyKinds == {"absent", "emptyString", "jsonString", "badString", "object"}

\* JSON.parse succeeds on the text of the body (JSON.parse("") throws).
IsJson(b) == b \in {"jsonString", "object"}

--------------------------------------------------------------------------
\* Strings

GENERIC_ERROR == "Upstream streaming failed for selected model"

\* The message of the AbortError a fetch or a body read rejects with.
AbortMsg == "This operation was aborted"

\* The message of ERR_HTTP_HEADERS_SENT, thrown by res.setHeader.
HeadersSentMsg == "Cannot set headers after they are sent to the client"

\* Messages of transport exceptions (error.message, or String(error)).
ErrMsgs == {"fetch failed", ""}

\* Messages of an upstream body stream that fails while it is read.
StreamErrMsgs == {"terminated"}

\* Non-2xx statuses of the upstream.
ErrorStatuses == {500}

\* Texts of an upstream error body.
UpstreamTexts == {"", "Service unavailable", "{\"error\":\"E1\"}",
                  "{\"error\":{\"code\":1}}"}

NoBody == "<no body>"

\* JavaScript's a || b on strings.
Or(a, b) == IF a # "" THEN a ELSE b

parseUpstreamError(text) ==
  CASE text = "{\"error\":\"E1\"}"       -> "E1"
    [] text = "{\"error\":{\"code\":1}}" -> "{\"code\":1}"
    [] OTHER                              -> ""

EndpointName(w) == IF w = "chat" THEN "chat/completions" ELSE "conversations"

\* errorText of callChatCompletions / callConversations for a non-2xx response.
HttpErrorText(w, status, txt) ==
  Or(parseUpstreamError(txt),
     Or(txt, EndpointName(w) \o " upstream error: " \o ToString(status)))

\* errorText for a 2xx response whose Content-Type is not an event stream.
NonSseErrorText(w, txt) ==
  Or(parseUpstreamError(txt), Or(txt, EndpointName(w) \o " did not return SSE"))

--------------------------------------------------------------------------
\* Model resolution

\* What FAMILY_ALIASES[name] yields for an inherited property name: a function
\* or the prototype object, truthy and not iterable.
NotIterable == <<"[Function: Object]">>

\* Resolve taking the requested name alone, whatever the table says.
ResolveSelfOnly(m) == <<m>>

\* Resolve keeping only the first candidate of a family.
ResolveHead(m) ==
  IF m \in DOMAIN FAMILY_ALIASES THEN <<FAMILY_ALIASES[m][1]>> ELSE <<m>>

\* `FAMILY_ALIASES[model] || [model]`.
Resolve(m) ==
  IF m \in DOMAIN FAMILY_ALIASES THEN FAMILY_ALIASES[m]
  ELSE IF m \in ObjectPrototypeKeys THEN NotIterable
  ELSE <<m>>

\* Order trying chat/completions first for every candidate.
OrderChatFirst(cand) == <<"chat", "conv">>

Order(cand) == IF cand \in PREFER_CHAT THEN <<"chat", "conv">> ELSE <<"conv", "chat">>

\* NextPos leaving a candidate after its first shape.
NextPosSkipsShape(c, w) == <<c + 1, 1>>

\* The loop position after the pair at (c, w): shapes inner, candidates outer.
NextPos(c, w) == IF w < 2 THEN <<c, w + 1>> ELSE <<c + 1, 1>>

--------------------------------------------------------------------------
\* State

VARIABLES
  method,         \* req.method
  apiKey,         \* process.env.MISTRAL_API_KEY is set
  body,           \* req.body, one of BodyKinds
  payloadModel,   \* payload.model, NoModel when the payload has none
  pc,             \* where the handler is
  families,       \* the candidate list
  ci, wi,         \* positions of the two nested loops
  lastErrorText,
  listening,      \* res.on("close", ...) is registered
  aborted,        \* abortController.signal.aborted
  res,            \* the response to the caller
  up,             \* the upstream response of the attempt in progress
  open,           \* ordinals of the attempts whose upstream connection is open
  issued,         \* the fetch calls made, in order: <<candidate, shape>>
  hist,           \* history of the request, for stating properties
  \* streamMistralReply (the client)
  frameList,      \* the frames the response body is made of, for stating properties
  stream,         \* the bytes of the response body
  pos,            \* how many of them the reader has delivered
  pending,        \* bytes of an incomplete character held by the TextDecoder
  buffer,         \* the rolling text buffer
  calls,          \* the callbacks made, in order: [cb, arg]
  cpc,            \* where streamMistralReply is
  signalAborted,  \* signal.aborted
  chist,          \* history of the run, for stating properties
  \* metricsStore
  metricsCache,   \* the cached metrics, ids of the recorded entries
  listeners,      \* the Set of subscribed listeners
  storage,        \* localStorage["mistral:metrics"]
  mhist,          \* history of the store, for stating properties
  \* the chat page (Index.tsx)
  streamingAssistantId,   \* React state, NoGeneration for null
  streamAbortController,  \* React state: the generation whose controller it holds
  generations,    \* each generation started by the page: where it is, its signal
  \* the handler's completions-shape message list
  messages,       \* payload.messages
  instructions,   \* payload.instructions
  attached,       \* what the attachments of the payload amount to
  chatMessages    \* the message list of the chat/completions body

vars == <<method, apiKey, body, payloadModel, pc, families, ci, wi, lastErrorText,
          listening, aborted, res, up, open, issued, hist,
          frameList, stream, pos, pending, buffer, calls, cpc, signalAborted, chist,
          metricsCache, listeners, storage, mhist,
          streamingAssistantId, streamAbortController, generations,
          messages, instructions, attached, chatMessages>>

request == <<method, apiKey, body, payloadModel>>

server == <<request, pc, families, ci, wi, lastErrorText, listening, aborted, res, up,
            open, issued, hist>>

client == <<frameList, stream, pos, pending, buffer, calls, cpc, signalAborted, chist>>

metrics == <<metricsCache, listeners, storage, mhist>>

page == <<streamingAssistantId, streamAbortController, generations>>

bodies == <<messages, instructions, attached, chatMessages>>

\* The parts of the application other than the handler and streamMistralReply.
app == <<metrics, page, bodies>>

NoUp == [n |-> 0, which |-> "none", kind |-> "none", status |-> 0, read |-> 0]

\* streamMistralReply before it is called.
ClientIdle ==
  /\ pos = 0
  /\ pending = <<>>
  /\ buffer = <<>>
  /\ calls = <<>>
  /\ cpc = "idle"
  /\ signalAborted = FALSE
  /\ chist = [ending |-> "none", abortAt |-> 0, abortIn |-> "none",
              splitUtf8 |-> FALSE, splitDelimiter |-> FALSE]

\* No response body under way.
NoReply ==
  /\ frameList = <<>>
  /\ stream = <<>>
  /\ ClientIdle

\* The handler's own state when it is entered.
HandlerStart ==
  /\ pc = "start"
  /\ families = <<>>
  /\ ci = 1
  /\ wi = 1
  /\ lastErrorText = ""
  /\ listening = FALSE
  /\ aborted = FALSE
  /\ res = [statusCode |-> 200, contentType |-> "none", headersSent |-> FALSE,
            ended |-> FALSE, destroyed |-> FALSE, json |-> NoBody, chunks |-> <<>>,
            responses |-> 0]
  /\ up = NoUp
  /\ open = {}
  /\ issued = <<>>
  /\ hist = [lastKind |-> "none", lastText |-> "", prevErrorText |-> "",
             firstWin |-> 0, priorNon2xx |-> TRUE, allNon2xx |-> TRUE,
             readLog |-> <<>>, relayEnd |-> "none", tried502 |-> FALSE,
             streamFailed |-> FALSE]

\* The metrics store of a page that has recorded nothing and loaded nothing.
NoMetricsHistory == [loaded |-> 0, recorded |-> 0, last |-> "none",
                     subscription |-> <<>>, delivered |-> <<>>]

MetricsIdle ==
  /\ metricsCache = <<>>
  /\ listeners = {}
  /\ storage = <<>>
  /\ mhist = NoMetricsHistory

\* useState<string | null>(null): no generation.
NoGeneration == 0

\* The chat page before any generation.
PageIdle ==
  /\ streamingAssistantId = NoGeneration
  /\ streamAbortController = NoGeneration
  /\ generations = <<>>

\* The message list before it is built.
Unbuilt == <<[role |-> "unbuilt"]>>

BodiesIdle ==
  /\ messages = <<>>
  /\ instructions = ""
  /\ attached = [extractedText |-> FALSE, images |-> FALSE, pixtral |-> FALSE]
  /\ chatMessages = Unbuilt

AppIdle == MetricsIdle /\ PageIdle /\ BodiesIdle

Init ==
  /\ method \in Methods
  /\ apiKey \in BOOLEAN
  /\ body \in BodyKinds
  /\ payloadModel \in (IF IsJson(body) THEN ModelInputs ELSE {NoModel})
  /\ HandlerStart
  /\ NoReply
  /\ AppIdle

--------------------------------------------------------------------------
\* The response object

\* res.status(code).json({error: msg}) and res.status(code).end(): setHeader
\* throws once the headers are on the wire; anything else on a closed
\* connection is inert.
resJson(r, code, msg) ==
  [r EXCEPT !.statusCode = code,
            !.contentType = IF r.contentType = "none" THEN "json" ELSE r.contentType,
            !.headersSent = TRUE, !.ended = TRUE, !.json = msg,
            !.responses = r.responses + 1]

resEnd(r) == [r EXCEPT !.headersSent = TRUE, !.ended = TRUE]

setSseHeaders(r) == [r EXCEPT !.statusCode = 200, !.contentType = "sse"]

\* resWrite putting the chunk in front of what was written.
resWriteReordered(r, chunk) ==
  [r EXCEPT !.headersSent = TRUE, !.chunks = <<chunk>> \o r.chunks]

resWrite(r, chunk) == [r EXCEPT !.headersSent = TRUE, !.chunks = Append(r.chunks, chunk)]

--------------------------------------------------------------------------
\* Guards before the loop

Preflight ==
  /\ pc = "start"
  /\ method = "OPTIONS"
  /\ res' = [resEnd(res) EXCEPT !.statusCode = 204, !.responses = res.responses + 1]
  /\ pc' = "done"
  /\ UNCHANGED <<app, client, request, families, ci, wi, lastErrorText, listening, aborted, up,
                 open, issued, hist>>

MethodNotAllowed ==
  /\ pc = "start"
  /\ method \notin {"OPTIONS", "POST"}
  /\ res' = resJson(res, 405, "Method Not Allowed")
  /\ pc' = "done"
  /\ UNCHANGED <<app, client, request, families, ci, wi, lastErrorText, listening, aborted, up,
                 open, issued, hist>>

MissingKey ==
  /\ pc = "start"
  /\ method = "POST"
  /\ ~apiKey
  /\ res' = resJson(res, 500, "Missing MISTRAL_API_KEY")
  /\ pc' = "done"
  /\ UNCHANGED <<app, client, request, families, ci, wi, lastErrorText, listening, aborted, up,
                 open, issued, hist>>

\* ParseBody swallowing the parse error.
ParseBodyLenient(b) ==
  IF b \in {"jsonString", "object"} THEN "payload" ELSE "defaults"

\* typeof req.body === "string" && req.body.length ? JSON.parse(req.body)
\*                                                 : req.body ?? {}
\* followed by `payload || {}`: "throw", "payload" (the parsed object) or
\* "defaults" (an empty payload).
ParseBody(b) ==
  CASE b = "badString"   -> "throw"
    [] b = "jsonString"  -> "payload"
    [] b = "object"      -> "payload"
    [] b = "emptyString" -> "defaults"
    [] b = "absent"      -> "defaults"

EffectiveModel(parsed, m) ==
  IF parsed = "payload" /\ m # NoModel THEN m ELSE DEFAULT_MODEL

InvalidJson ==
  /\ pc = "start"
  /\ method = "POST"
  /\ apiKey
  /\ ParseBody(body) = "throw"
  /\ res' = resJson(res, 400, "Invalid JSON body")
  /\ pc' = "done"
  /\ UNCHANGED <<app, client, request, families, ci, wi, lastErrorText, listening, aborted, up,
                 open, issued, hist>>

\* Destructuring of the payload and resolution of the candidates.
ParsePayload ==
  /\ pc = "start"
  /\ method = "POST"
  /\ apiKey
  /\ ParseBody(body) # "throw"
  /\ families' = Resolve(EffectiveModel(ParseBody(body), payloadModel))
  /\ pc' = "build"
  /\ UNCHANGED <<app, client, request, ci, wi, lastErrorText, listening, aborted, res, up, open,
                 issued, hist>>

\* The request bodies are built (attachments are extracted with awaits), then
\* the AbortController is created and the close listener registered.
BuildBodies ==
  /\ pc = "build"
  /\ listening' = TRUE
  /\ lastErrorText' = ""
  /\ ci' = 1
  /\ wi' = 1
  /\ pc' = "loop"
  /\ UNCHANGED <<app, client, request, families, aborted, res, up, open, issued, hist>>

--------------------------------------------------------------------------
\* The fallback loop

\* RetainError keeping the first error instead of the last.
RetainErrorFirst(errorText, last) == Or(last, errorText)

\* CancelInFlight when the fetch does not carry the signal.
CancelNothing(conns) == conns

\* `lastErrorText = errorText || lastErrorText` of the else branch.
RetainError(errorText, last) == Or(errorText, last)

\* What aborting the shared signal does to the upstream requests that carry it.
CancelInFlight(conns) == {}

\* The attempt in progress ends without a relay: record its error, move on.
Continue(kind, text, newLast, conns) ==
  /\ lastErrorText' = newLast
  /\ hist' = [hist EXCEPT !.lastKind = kind, !.lastText = text,
                          !.prevErrorText = lastErrorText,
                          !.allNon2xx = hist.allNon2xx /\ kind = "http",
                          !.streamFailed = hist.streamFailed
                                             \/ (kind = "relaythrow" /\ ~aborted)]
  /\ ci' = NextPos(ci, wi)[1]
  /\ wi' = NextPos(ci, wi)[2]
  /\ open' = conns
  /\ up' = NoUp
  /\ pc' = "loop"
  /\ UNCHANGED <<app, client, request, families, listening, aborted, res, issued>>

\* `for (const candidate of families)` on a value that is not iterable: a
\* TypeError outside every try, which leaves the handler before any attempt.
LoopThrows ==
  /\ pc = "loop"
  /\ families = NotIterable
  /\ pc' = "crashed"
  /\ UNCHANGED <<app, client, request, families, ci, wi, lastErrorText, listening, aborted, res,
                 up, open, issued, hist>>

ConnectAlways(conns, n, isAborted) == conns \cup {n}

\* The connections open once fetch was called with the shared signal: a fetch
\* on an aborted signal rejects without connecting.
Connect(conns, n, isAborted) == IF isAborted THEN conns ELSE conns \cup {n}

\* fetch(url, {..., signal}) of callChatCompletions / callConversations. A fetch
\* on an aborted signal opens no connection and rejects.
IssueAttempt ==
  /\ pc = "loop"
  /\ families # NotIterable
  /\ ci <= Len(families)
  /\ LET cand == families[ci]
         w    == Order(cand)[wi]
         n    == Len(issued) + 1
     IN /\ issued' = Append(issued, <<cand, w>>)
        /\ up' = [n |-> n, which |-> w, kind |-> "pending", status |-> 0, read |-> 0]
        /\ open' = Connect(open, n, aborted)
  /\ pc' = "fetching"
  /\ UNCHANGED <<app, client, request, families, ci, wi, lastErrorText, listening, aborted, res, hist>>

\* The fetch rejects (transport failure, or the abort): the handler's catch.
FetchThrows ==
  /\ pc = "fetching"
  /\ \E msg \in (IF aborted THEN {AbortMsg} ELSE ErrMsgs) :
       Continue("throw", msg, msg, open \ {up.n})

\* !response.ok: the call goes on to read the error body.
FetchHttpError ==
  /\ pc = "fetching"
  /\ ~aborted
  /\ \E status \in ErrorStatuses :
       up' = [up EXCEPT !.kind = "http", !.status = status]
  /\ pc' = "errbody"
  /\ UNCHANGED <<app, client, request, families, ci, wi, lastErrorText, listening, aborted, res,
                 open, issued, hist>>

\* 2xx whose Content-Type does not contain text/event-stream.
FetchNonSse ==
  /\ pc = "fetching"
  /\ ~aborted
  /\ up' = [up EXCEPT !.kind = "nonsse", !.status = 200]
  /\ pc' = "errbody"
  /\ UNCHANGED <<app, client, request, families, ci, wi, lastErrorText, listening, aborted, res,
                 open, issued, hist>>

\* `await response.text().catch(() => "")`, the error text, and the else branch
\* of the handler. The read consumes the response; an abort makes it reject.
ReadErrorBody ==
  /\ pc = "errbody"
  /\ \E txt \in (IF aborted THEN {""} ELSE UpstreamTexts) :
       LET err == IF up.kind = "http" THEN HttpErrorText(up.which, up.status, txt)
                                      ELSE NonSseErrorText(up.which, txt)
       IN Continue(up.kind, err, RetainError(err, lastErrorText), open \ {up.n})

\* 2xx event stream with a null body (a 204): ok and streamable, errorText "",
\* `response?.body` is falsy, so the else branch runs.
FetchNoBody ==
  /\ pc = "fetching"
  /\ ~aborted
  /\ Continue("nobody", "", RetainError("", lastErrorText), open \ {up.n})

\* 2xx event stream with a body: setSseHeaders, then the for-await starts.
RelayBegins ==
  /\ pc = "fetching"
  /\ ~aborted
  /\ ~res.headersSent
  /\ res' = setSseHeaders(res)
  /\ up' = [up EXCEPT !.kind = "sse", !.status = 200]
  /\ hist' = [hist EXCEPT
                !.firstWin = IF hist.firstWin = 0 THEN up.n ELSE hist.firstWin,
                !.priorNon2xx = IF hist.firstWin = 0 THEN hist.allNon2xx
                                                     ELSE hist.priorNon2xx]
  /\ pc' = "relay"
  /\ UNCHANGED <<app, client, request, families, ci, wi, lastErrorText, listening, aborted, open,
                 issued>>

\* 2xx event stream with a body when the headers are already on the wire:
\* res.setHeader throws inside the try, the catch records it, and the response
\* body is left unread, so its connection stays open.
RelayRefused ==
  /\ pc = "fetching"
  /\ ~aborted
  /\ res.headersSent
  /\ Continue("relaythrow", HeadersSentMsg, HeadersSentMsg, open)

\* One turn of `for await (const chunk of upstreamStream)`: a chunk arrives.
\* `if (res.destroyed) break;` leaves the loop (which destroys the stream), then
\* res.end() and return; otherwise res.write(chunk).
RelayChunk ==
  /\ pc = "relay"
  /\ up.read < MaxChunks
  /\ LET chunk == <<up.n, up.read + 1>>
     IN IF res.destroyed
        THEN /\ res' = resEnd(res)
             /\ open' = open \ {up.n}
             /\ up' = NoUp
             /\ hist' = [hist EXCEPT !.readLog = Append(hist.readLog, chunk),
                                     !.relayEnd = "break"]
             /\ pc' = "done"
        ELSE /\ res' = resWrite(res, chunk)
             /\ up' = [up EXCEPT !.read = up.read + 1]
             /\ hist' = [hist EXCEPT !.readLog = Append(hist.readLog, chunk)]
             /\ pc' = "relay"
             /\ open' = open
  /\ UNCHANGED <<app, client, request, families, ci, wi, lastErrorText, listening, aborted, issued>>

\* The upstream stream ends: res.end() and return.
RelayEnd ==
  /\ pc = "relay"
  /\ ~aborted
  /\ res' = resEnd(res)
  /\ open' = open \ {up.n}
  /\ up' = NoUp
  /\ hist' = [hist EXCEPT !.relayEnd = "eof"]
  /\ pc' = "done"
  /\ UNCHANGED <<app, client, request, families, ci, wi, lastErrorText, listening, aborted, issued>>

\* The upstream stream fails, or is aborted, while it is read: the for-await
\* throws inside the try and the catch of the attempt records the message.
RelayThrows ==
  /\ pc = "relay"
  /\ \E msg \in (IF aborted THEN {AbortMsg} ELSE StreamErrMsgs) :
       Continue("relaythrow", msg, msg, open \ {up.n})

\* res.status(502).json({error: lastErrorText || GENERIC_ERROR}) after the loop.
\* json() sets headers, which throws when they have been sent: the exception
\* leaves the handler.
RespondExhausted ==
  /\ pc = "loop"
  /\ families # NotIterable
  /\ ci > Len(families)
  /\ hist' = [hist EXCEPT !.tried502 = TRUE]
  /\ IF res.headersSent
     THEN /\ pc' = "crashed"
          /\ res' = [res EXCEPT !.statusCode = 502]
     ELSE /\ pc' = "done"
          /\ res' = resJson(res, 502, Or(lastErrorText, GENERIC_ERROR))
  /\ UNCHANGED <<app, client, request, families, ci, wi, lastErrorText, listening, aborted, up,
                 open, issued>>

\* The places where the handler is suspended (before it runs, in the awaits of
\* the attachment extraction, of a fetch, of a body read and of the for-await),
\* and so where an event of the caller's connection can be delivered.
SuspensionPoints == {"start", "build", "fetching", "errbody", "relay"}

\* The caller's connection closes. With the listener registered the controller
\* is aborted, which cancels the upstream requests carrying its signal.
CallerClose ==
  /\ pc \in SuspensionPoints
  /\ ~res.destroyed
  /\ res' = [res EXCEPT !.destroyed = TRUE]
  /\ aborted' = listening
  /\ open' = IF listening THEN CancelInFlight(open) ELSE open
  /\ UNCHANGED <<app, client, request, pc, families, ci, wi, lastErrorText, listening, up, issued,
                 hist>>

Next ==
  \/ Preflight
  \/ MethodNotAllowed
  \/ MissingKey
  \/ InvalidJson
  \/ ParsePayload
  \/ BuildBodies
  \/ LoopThrows
  \/ IssueAttempt
  \/ FetchThrows
  \/ FetchHttpError
  \/ FetchNonSse
  \/ ReadErrorBody
  \/ FetchNoBody
  \/ RelayBegins
  \/ RelayRefused
  \/ RelayChunk
  \/ RelayEnd
  \/ RelayThrows
  \/ RespondExhausted
  \/ CallerClose

Spec == Init /\ [][Next]_vars

\* The handler on well-formed POST requests for every name the resolver can be
\* given, against an upstream on which every attempt fails and a caller that
\* stays connected: the runs in which the whole attempt sequence is issued.
ResolverInputs ==
  DOMAIN FAMILY_ALIASES \cup UnknownModels \cup ObjectPrototypeKeys \cup {NoModel}

InitResolver ==
  /\ method = "POST"
  /\ apiKey = TRUE
  /\ body = "jsonString"
  /\ payloadModel \in ResolverInputs
  /\ HandlerStart
  /\ NoReply
  /\ AppIdle

NextResolver ==
  \/ ParsePayload
  \/ BuildBodies
  \/ LoopThrows
  \/ IssueAttempt
  \/ FetchThrows
  \/ FetchHttpError
  \/ ReadErrorBody
  \/ RespondExhausted

SpecResolver == InitResolver /\ [][NextResolver]_vars

--------------------------------------------------------------------------
\* Properties of the fallback loop and the relay

\* The model name the handler resolves, and the attempt sequence the alias
\* table and the preference set prescribe for it (candidates outer, shapes inner).
RequestedModel ==
  IF IsJson(body) /\ payloadModel # NoModel THEN payloadModel ELSE DEFAULT_MODEL

ExpectedAttempts ==
  LET fam == IF RequestedModel \in DOMAIN FAMILY_ALIASES
             THEN FAMILY_ALIASES[RequestedModel] ELSE <<RequestedModel>>
  IN [k \in 1..(2 * Len(fam)) |->
        LET c == fam[(k + 1) \div 2]
        IN <<c, IF (c \in PREFER_CHAT) = (k % 2 = 1) THEN "chat" ELSE "conv">>]

NothingSent == res.chunks = <<>> /\ ~res.headersSent /\ ~res.ended

AllFailedAndAnswered == pc = "done" /\ hist.tried502 /\ hist.firstWin = 0

\* C1: when attempts 1..N-1 fail with a non-2xx status and attempt N returns a
\* 2xx event stream, only attempt N's chunks reach the caller and no attempt
\* after N is ever issued.
C1_FirstSuccessWins ==
  (hist.firstWin # 0 /\ hist.priorNon2xx) =>
     /\ Len(issued) = hist.firstWin
     /\ \A i \in 1..Len(res.chunks) : res.chunks[i][1] = hist.firstWin

\* C2: once a relay has begun, no further upstream attempt is issued and the
\* 502 JSON response is never attempted.
C2_AllOrNothing ==
  hist.firstWin # 0 => (Len(issued) = hist.firstWin /\ ~hist.tried502)

\* C3 (as stated): when every attempt fails, the handler answers once, with
\* status 502 and a message equal to the error text of the last attempt.
C3_LastErrorWins ==
  AllFailedAndAnswered =>
     /\ res.responses = 1
     /\ res.statusCode = 502
     /\ res.json = hist.lastText

\* C3 (amended): when every attempt fails, the handler answers once, with
\* status 502 and a message equal to the error text of the last attempt when
\* that text is non-empty; when it is empty the message is the generic text if
\* the last attempt threw, and otherwise the text retained before the last
\* attempt, or the generic text when none was retained.
C3_LastNonEmptyErrorWins ==
  AllFailedAndAnswered =>
     /\ res.responses = 1
     /\ res.statusCode = 502
     /\ res.json = IF hist.lastText # "" THEN hist.lastText
                   ELSE IF hist.lastKind = "throw" THEN GENERIC_ERROR
                   ELSE Or(hist.prevErrorText, GENERIC_ERROR)

\* C3 witness: every attempt failed, and the 502 message is the last attempt's
\* text, which differs from the text retained before it.
C3_Witness ==
  /\ AllFailedAndAnswered
  /\ res.json = hist.lastText
  /\ hist.prevErrorText \notin {"", hist.lastText}

\* C4: the fetch calls of a request are a prefix of the prescribed sequence,
\* no pair is issued twice, and when the 502 response is reached every pair
\* has been issued.
C4_OrderedOnce ==
  /\ Len(issued) <= Len(ExpectedAttempts)
  /\ \A i \in 1..Len(issued) : issued[i] = ExpectedAttempts[i]
  /\ \A i, j \in 1..Len(issued) : i # j => issued[i] # issued[j]
  /\ hist.tried502 => Len(issued) = Len(ExpectedAttempts)

\* C4 witness: the eight pairs of a four-candidate alias were all issued.
C4_Witness == pc = "done" /\ res.statusCode = 502 /\ Len(issued) = 8

\* C5: at most one upstream connection is open at any time.
C5_OneConnection == Cardinality(open) <= 1

\* C6: a caller disconnect while an upstream request is in flight aborts the
\* controller and cancels the request, and once the controller is aborted no
\* upstream connection is open.
C6_DisconnectCancels ==
  /\ [][(~res.destroyed /\ res.destroyed' /\ open # {}) =>
          (aborted' /\ open' = {})]_vars
  /\ [](aborted => open = {})

\* C6 witness: the caller went away during a relay and the relay's upstream
\* request is cancelled.
C6_Witness == pc = "relay" /\ aborted /\ res.destroyed /\ open = {}

\* C7: after a caller disconnect no exception leaves the handler. Stated for
\* the requests whose upstream streams never fail on their own, where the
\* disconnect is the only disturbance.
C7_DisconnectNeverThrows == ~(aborted /\ ~hist.streamFailed /\ pc = "crashed")

\* C8: the chunks written to the caller are a prefix of the chunks read from
\* one upstream response, in order and unmodified, and all of them when the
\* upstream stream ends normally with the caller connected.
C8_RelayIsPrefix ==
  /\ Len(res.chunks) <= Len(hist.readLog)
  /\ \A i \in 1..Len(res.chunks) : res.chunks[i] = hist.readLog[i]
  /\ \A i \in 1..Len(hist.readLog) :
        hist.readLog[i][2] = i /\ hist.readLog[i][1] = hist.readLog[1][1]
  /\ (hist.relayEnd = "eof" /\ ~res.destroyed) => res.chunks = hist.readLog

\* C8 witness: a relay of two or more chunks ended normally with the caller
\* connected.
C8_Witness == hist.relayEnd = "eof" /\ ~res.destroyed /\ Len(res.chunks) >= 2

\* C9: after a failure of one of the three kinds that is not the last attempt,
\* the handler is about to issue the next attempt and nothing has been sent to
\* the caller; a 2xx response that is no event stream is never relayed.
C9_LocalRecovery ==
  /\ (pc = "loop" /\ hist.lastKind \in {"http", "nonsse", "throw"}
        /\ ci <= Len(families)) => NothingSent
  /\ pc = "relay" => up.kind = "sse"

\* C10 (as stated): an upstream call needs POST, the credential and a body
\* that parses as JSON; every other request is answered without one.
C10_GuardsBeforeUpstream ==
  Len(issued) > 0 => (method = "POST" /\ apiKey /\ IsJson(body))

\* C10 (amended): an upstream call needs POST, the credential and a body that is
\* absent, empty or parses as JSON; OPTIONS is answered 204 without a body, any
\* other non-POST method 405, a missing credential 500 and a non-empty body that
\* is not JSON 400, each with no upstream call.
C10_GuardsAmended ==
  /\ Len(issued) > 0 => (method = "POST" /\ apiKey /\ body # "badString")
  /\ (pc = "done" /\ method = "OPTIONS") =>
        (res.statusCode = 204 /\ res.json = NoBody /\ issued = <<>>)
  /\ (pc = "done" /\ method \notin {"OPTIONS", "POST"}) =>
        (res.statusCode = 405 /\ issued = <<>>)
  /\ (pc = "done" /\ method = "POST" /\ ~apiKey) =>
        (res.statusCode = 500 /\ issued = <<>>)
  /\ (pc = "done" /\ method = "POST" /\ apiKey /\ body = "badString") =>
        (res.statusCode = 400 /\ res.json = "Invalid JSON body" /\ issued = <<>>)

\* C10 witness: a POST with the credential and an empty body reached the
\* upstream.
C10_Witness == body = "emptyString" /\ Len(issued) > 0

--------------------------------------------------------------------------
\* Properties of the alias resolver (checked under SpecResolver)

\* The attempts of one candidate, in the order its membership in PREFER_CHAT
\* dictates.
PairOf(cand) ==
  IF cand \in PREFER_CHAT THEN <<<<cand, "chat">>, <<cand, "conv">>>>
  ELSE <<<<cand, "conv">>, <<cand, "chat">>>>

Resolved == pc # "start"

\* C11: every key of FAMILY_ALIASES resolves to its table entry, a non-empty
\* list that stays the same for the whole request, and the attempts issued
\* when all fail are that entry's, non-empty.
C11_AliasResolution ==
  /\ []((Resolved /\ RequestedModel \in DOMAIN FAMILY_ALIASES) =>
          /\ families = FAMILY_ALIASES[RequestedModel]
          /\ families # <<>>
          /\ hist.tried502 => (issued = ExpectedAttempts /\ issued # <<>>))
  /\ [][Resolved => families' = families]_vars

\* C11 witness: the two candidates of the mistral-large-latest family were
\* tried under both shapes.
C11_Witness ==
  /\ RequestedModel = "mistral-large-latest"
  /\ hist.tried502
  /\ issued = PairOf("mistral-large-latest") \o PairOf("mistral-large")

\* C12: a name that is no key of FAMILY_ALIASES resolves to the one candidate
\* of that name, tried under both shapes, and the request never ends without
\* an upstream attempt.
C12_UnknownNameTwoAttempts ==
  (Resolved /\ RequestedModel \notin DOMAIN FAMILY_ALIASES) =>
     /\ families = <<RequestedModel>>
     /\ pc \in {"done", "crashed"} => Len(issued) > 0
     /\ hist.tried502 =>
          /\ Len(issued) = 2
          /\ {issued[1], issued[2]} =
               {<<RequestedModel, "chat">>, <<RequestedModel, "conv">>}

\* C13: the two attempts of a candidate are adjacent; a candidate in
\* PREFER_CHAT (exact match) is tried under chat/completions and then under
\* conversations, any other candidate under conversations and then under
\* chat/completions.
C13_ShapeOrder ==
  \A k \in 1..Len(issued) :
     LET cand == issued[k][1]
     IN /\ (k % 2 = 1) =>
             issued[k][2] = (IF cand \in PREFER_CHAT THEN "chat" ELSE "conv")
        /\ (k % 2 = 0) =>
             /\ issued[k - 1][1] = cand
             /\ issued[k][2] = (IF cand \in PREFER_CHAT THEN "conv" ELSE "chat")

\* C13 witness: a name that differs from a PREFER_CHAT member only in case was
\* tried under conversations first, then under chat/completions.
C13_Witness ==
  /\ hist.tried502
  /\ "mistral-small-latest" \in PREFER_CHAT
  /\ issued = <<<<"Mistral-Small-Latest", "conv">>, <<"Mistral-Small-Latest", "chat">>>>

\* The candidates of the two open families, as the table literally lists them.
OpenFamily(f) ==
  <<f \o "-medium-latest", f \o "-small-latest", f \o "-medium", f \o "-small">>

\* C14: magistral-latest and devstral-latest each resolve to exactly four
\* candidates, <family>-medium-latest, -small-latest, -medium, -small in that
\* order, and eight attempts are issued when all of them fail.
C14_OpenFamilies ==
  \A f \in {"magistral", "devstral"} :
     (Resolved /\ RequestedModel = f \o "-latest") =>
        /\ families = OpenFamily(f)
        /\ hist.tried502 =>
             /\ Len(issued) = 8
             /\ \A k \in 1..8 : issued[k][1] = OpenFamily(f)[(k + 1) \div 2]

\* C14 witness: devstral-latest was answered 502 after eight attempts, the
\* last of them for devstral-small.
C14_Witness ==
  /\ RequestedModel = "devstral-latest"
  /\ pc = "done"
  /\ res.statusCode = 502
  /\ Len(issued) = 8
  /\ issued[8][1] = "devstral-small"

--------------------------------------------------------------------------
\* The client's stream framer (le-mistral-chat/src/lib/chatApi.ts)
\*
\* A response body is a sequence of bytes and a decoded text a sequence of
\* characters, both written as sequences of one-symbol strings. An ASCII
\* symbol is its own single byte; U+00E9 is the two bytes "c3" "a9". The fixed
\* parts of a JSON payload (everything around the text it carries) are one
\* symbol each.

MaxFrames == 2

NL == "\n"
SP == " "
DataPrefix == <<"data:">>
DoneMarker == "[DONE]"

\* U+00E9, the character the bytes "c3" "a9" encode.
EAcute == "<U+00E9>"

\* U+FFFD, which the decoder emits for a malformed byte sequence.
Replacement == "<U+FFFD>"

JsonDeltaOpen == "{\"type\":\"message.output.delta\",\"content\":\""
JsonDone == "{\"type\":\"conversation.response.done\"}"
JsonErrorOpen == "{\"error\":\""
JsonErrorObjectOpen == "{\"error\":{\"message\":\""
JsonChoicesOpen == "{\"choices\":[{\"delta\":{\"content\":\""
JsonStringClose == "\"}"
JsonObjectClose == "\"}}"
JsonChoicesClose == "\"}}]}"

\* Whole payloads, one symbol each.
JsonChoicesMessage ==
  "{\"choices\":[{\"message\":{\"content\":\"a\"}},{\"delta\":{\"content\":\"b\"}}]}"
JsonChoicesSegments ==
  "{\"choices\":[{\"delta\":{\"content\":[{\"text\":\"a\"},{\"type\":\"x\"},{\"text\":\"b\"}]}}]}"
JsonChoicesNone == "{\"choices\":[]}"
JsonErrorAndChoices ==
  "{\"error\":\"e\",\"choices\":[{\"delta\":{\"content\":\"a\"}}]}"
JsonBlankErrorAndChoices ==
  "{\"error\":\"\",\"choices\":[{\"delta\":{\"content\":\"a\"}}]}"
JsonDeltaAndError ==
  "{\"type\":\"message.output.delta\",\"content\":\"a\",\"error\":\"e\"}"
JsonDoneAndChoices ==
  "{\"type\":\"conversation.response.done\",\"choices\":[{\"delta\":{\"content\":\"a\"}}]}"

JsonSymbols ==
  {JsonDeltaOpen, JsonDone, JsonErrorOpen, JsonErrorObjectOpen, JsonChoicesOpen,
   JsonStringClose, JsonObjectClose, JsonChoicesClose, DoneMarker,
   JsonChoicesMessage, JsonChoicesSegments, JsonChoicesNone, JsonErrorAndChoices,
   JsonBlankErrorAndChoices, JsonDeltaAndError, JsonDoneAndChoices}

\* The frames the upstream is taken to send, without their delimiter.
Frames ==
  [ delta       |-> DataPrefix \o <<SP, JsonDeltaOpen, "a", JsonStringClose>>,
    deltaUtf8   |-> <<":", NL>> \o DataPrefix \o
                    <<JsonDeltaOpen, "c3", "a9", JsonStringClose>>,
    done        |-> DataPrefix \o <<SP, JsonDone>>,
    errorString |-> DataPrefix \o <<SP, JsonErrorOpen, "a", JsonStringClose>>,
    errorObject |-> DataPrefix \o <<SP, JsonErrorObjectOpen, "a", JsonObjectClose>>,
    choices     |-> DataPrefix \o <<SP, JsonChoicesOpen, "a", JsonChoicesClose>>,
    doneMarker  |-> DataPrefix \o <<SP, DoneMarker>>,
    badJson     |-> DataPrefix \o <<SP, JsonDeltaOpen, "a">>,
    comment     |-> <<":">> ]

FrameIds == DOMAIN Frames

\* Frames of the completions shape and frames carrying several of the fields
\* the classification looks at.
ShapeFrames ==
  [ choicesMessage       |-> DataPrefix \o <<SP, JsonChoicesMessage>>,
    choicesSegments      |-> DataPrefix \o <<SP, JsonChoicesSegments>>,
    choicesBlank         |-> DataPrefix \o <<SP, JsonChoicesOpen, JsonChoicesClose>>,
    choicesNone          |-> DataPrefix \o <<SP, JsonChoicesNone>>,
    errorAndChoices      |-> DataPrefix \o <<SP, JsonErrorAndChoices>>,
    blankErrorAndChoices |-> DataPrefix \o <<SP, JsonBlankErrorAndChoices>>,
    deltaAndError        |-> DataPrefix \o <<SP, JsonDeltaAndError>>,
    doneAndChoices       |-> DataPrefix \o <<SP, JsonDoneAndChoices>> ]

ShapeFrameIds == DOMAIN ShapeFrames \cup {"choices"}

AllFrames == Frames @@ ShapeFrames

RECURSIVE StreamOf(_)
StreamOf(fl) ==
  IF fl = <<>> THEN <<>> ELSE AllFrames[Head(fl)] \o <<NL, NL>> \o StreamOf(Tail(fl))

FrameLists == UNION {[1..n -> FrameIds] : n \in 0..MaxFrames}

ShapeLists == UNION {[1..n -> ShapeFrameIds] : n \in 0..MaxFrames}

--------------------------------------------------------------------------
\* TextDecoder.decode(value, {stream: true})

RECURSIVE DecodeFrom(_, _, _, _)
DecodeFrom(bytes, i, pend, out) ==
  IF i > Len(bytes) THEN [chars |-> out, pending |-> pend]
  ELSE LET b == bytes[i]
       IN IF pend # <<>>
          THEN IF b = "a9" THEN DecodeFrom(bytes, i + 1, <<>>, Append(out, EAcute))
               ELSE DecodeFrom(bytes, i, <<>>, Append(out, Replacement))
          ELSE IF b = "c3" THEN DecodeFrom(bytes, i + 1, <<b>>, out)
               ELSE IF b = "a9" THEN DecodeFrom(bytes, i + 1, <<>>, Append(out, Replacement))
               ELSE DecodeFrom(bytes, i + 1, <<>>, Append(out, b))

\* decode(value) without the stream option: every chunk is decoded on its own.
DecodeEachChunkAlone(pend, bytes) ==
  LET d == DecodeFrom(bytes, 1, <<>>, <<>>)
  IN [chars   |-> IF d.pending = <<>> THEN d.chars ELSE Append(d.chars, Replacement),
      pending |-> <<>>]

Decode(pend, bytes) == DecodeFrom(bytes, 1, pend, <<>>)

--------------------------------------------------------------------------
\* String helpers

\* s.split(sep) for a non-empty separator: always at least one part.
RECURSIVE SplitFrom(_, _, _, _)
SplitFrom(s, sep, i, cur) ==
  IF i > Len(s) THEN <<cur>>
  ELSE IF i + Len(sep) - 1 <= Len(s) /\ SubSeq(s, i, i + Len(sep) - 1) = sep
       THEN <<cur>> \o SplitFrom(s, sep, i + Len(sep), <<>>)
       ELSE SplitFrom(s, sep, i + 1, Append(cur, s[i]))

Split(s, sep) == SplitFrom(s, sep, 1, <<>>)

IsSpace(c) == c \in {SP, NL}

RECURSIVE TrimStart(_)
TrimStart(s) == IF s # <<>> /\ IsSpace(Head(s)) THEN TrimStart(Tail(s)) ELSE s

RECURSIVE TrimEnd(_)
TrimEnd(s) ==
  IF s # <<>> /\ IsSpace(s[Len(s)]) THEN TrimEnd(SubSeq(s, 1, Len(s) - 1)) ELSE s

Trim(s) == TrimEnd(TrimStart(s))

StartsWith(s, p) == Len(s) >= Len(p) /\ SubSeq(s, 1, Len(p)) = p

\* s.indexOf(p), for a p that occurs in s.
IndexOf(s, p) ==
  CHOOSE i \in 1..Len(s) :
    /\ StartsWith(SubSeq(s, i, Len(s)), p)
    /\ \A j \in 1..(i - 1) : ~StartsWith(SubSeq(s, j, Len(s)), p)

--------------------------------------------------------------------------
\* Events

\* A content value: a string, a list of segments, or none.
NoContent == [kind |-> "undefined", parts |-> <<>>]

Text(t) == [kind |-> "string", parts |-> <<[typeofText |-> "string", text |-> t]>>]

Segments(ps) == [kind |-> "list", parts |-> ps]

\* A segment {text: t}, and a segment without a text.
Seg(t) == [typeofText |-> "string", text |-> t]

SegWithoutText == [typeofText |-> "undefined", text |-> <<>>]

\* choice.delta / choice.message: absent, or an object with a content.
NoHolder == [present |-> FALSE, content |-> NoContent]

Holder(c) == [present |-> TRUE, content |-> c]

Choice(d, m) == [delta |-> d, message |-> m]

NoEvent ==
  [ok |-> FALSE, type |-> "", content |-> <<>>, error |-> "absent",
   errorText |-> <<>>, choices |-> <<>>]

Event(type, content, error, errorText, choices) ==
  [ok |-> TRUE, type |-> type, content |-> content, error |-> error,
   errorText |-> errorText, choices |-> choices]

DeltaChoice(t) == <<Choice(Holder(Text(t)), NoHolder)>>

\* JSON.parse of the whole-payload symbols.
JsonObjects ==
  ( JsonDone :> Event("conversation.response.done", <<>>, "absent", <<>>, <<>>)
 @@ JsonChoicesMessage :>
      Event("", <<>>, "absent", <<>>,
            <<Choice(NoHolder, Holder(Text(<<"a">>))),
              Choice(Holder(Text(<<"b">>)), NoHolder)>>)
 @@ JsonChoicesSegments :>
      Event("", <<>>, "absent", <<>>,
            <<Choice(Holder(Segments(<<Seg(<<"a">>), SegWithoutText, Seg(<<"b">>)>>)),
                     NoHolder)>>)
 @@ JsonChoicesNone :> Event("", <<>>, "absent", <<>>, <<>>)
 @@ JsonErrorAndChoices :> Event("", <<>>, "string", <<"e">>, DeltaChoice(<<"a">>))
 @@ JsonBlankErrorAndChoices :> Event("", <<>>, "string", <<>>, DeltaChoice(<<"a">>))
 @@ JsonDeltaAndError :> Event("message.output.delta", <<"a">>, "string", <<"e">>, <<>>)
 @@ JsonDoneAndChoices :>
      Event("conversation.response.done", <<>>, "absent", <<>>, DeltaChoice(<<"a">>)) )

\* JSON.parse that reads every unparsable payload as an error object.
ParseJsonAsError(s) == Event("", <<>>, "string", <<"Unexpected token">>, <<>>)

\* JSON.parse(jsonStr), NoEvent where it throws.
ParseJson(s) ==
  IF Len(s) = 1 /\ s[1] \in DOMAIN JsonObjects THEN JsonObjects[s[1]]
  ELSE IF Len(s) < 2 \/ \E i \in 2..(Len(s) - 1) : s[i] \in JsonSymbols THEN NoEvent
  ELSE IF <<s[1], s[Len(s)]>> = <<JsonDeltaOpen, JsonStringClose>>
    THEN Event("message.output.delta", SubSeq(s, 2, Len(s) - 1), "absent", <<>>, <<>>)
  ELSE IF <<s[1], s[Len(s)]>> = <<JsonErrorOpen, JsonStringClose>>
    THEN Event("", <<>>, "string", SubSeq(s, 2, Len(s) - 1), <<>>)
  ELSE IF <<s[1], s[Len(s)]>> = <<JsonErrorObjectOpen, JsonObjectClose>>
    THEN Event("", <<>>, "object", SubSeq(s, 2, Len(s) - 1), <<>>)
  ELSE IF <<s[1], s[Len(s)]>> = <<JsonChoicesOpen, JsonChoicesClose>>
    THEN Event("", <<>>, "absent", <<>>, DeltaChoice(SubSeq(s, 2, Len(s) - 1)))
  ELSE NoEvent

\* The payload of a data line: what follows its first "data:", trimmed.
JsonStrOf(dataLine) ==
  Trim(SubSeq(dataLine, IndexOf(dataLine, DataPrefix) + Len(DataPrefix), Len(dataLine)))

\* `if (!jsonStr || jsonStr === "[DONE]") return null`, then JSON.parse.
ParsePayloadText(jsonStr) ==
  IF jsonStr = <<>> \/ jsonStr = <<DoneMarker>> THEN NoEvent ELSE ParseJson(jsonStr)

IsDataLine(l) == StartsWith(Trim(l), DataPrefix)

\* lines.find(isDataLine): the index of the first data line, 0 when none.
RECURSIVE FindDataLine(_, _)
FindDataLine(lines, i) ==
  IF i > Len(lines) THEN 0
  ELSE IF IsDataLine(lines[i]) THEN i
  ELSE FindDataLine(lines, i + 1)

DataJsonOf(lines, i) ==
  IF i = 0 THEN NoEvent ELSE ParsePayloadText(JsonStrOf(lines[i]))

DataJsonOfLines(lines) == DataJsonOf(lines, FindDataLine(lines, 1))

extractDataJsonFromFrame(frame) == DataJsonOfLines(Split(frame, <<NL>>))

\* `if (evt.error)`: an empty string is falsy, an object is truthy.
Truthy(evt) == evt.error = "object" \/ (evt.error = "string" /\ evt.errorText # <<>>)

\* String(evt.error)
StringOf(evt) == IF evt.error = "object" THEN <<"[object Object]">> ELSE evt.errorText

Call(cb, arg) == [cb |-> cb, arg |-> arg]

NoCalls == [calls |-> <<>>, stop |-> FALSE]

Emit(text) ==
  [calls |-> IF text # <<>> THEN <<Call("onToken", text)>> ELSE <<>>, stop |-> FALSE]

\* parts.map(text or "").join("")
RECURSIVE JoinTexts(_)
JoinTexts(parts) ==
  IF parts = <<>> THEN <<>>
  ELSE (IF Head(parts).typeofText = "string" THEN Head(parts).text ELSE <<>>)
         \o JoinTexts(Tail(parts))

\* extractTextFromDeltaContent reading a string only, a segment list as "".
ExtractStringOnly(content) ==
  IF content.kind = "string" THEN content.parts[1].text ELSE <<>>

extractTextFromDeltaContent(content) ==
  IF content.kind = "string" THEN content.parts[1].text
  ELSE IF content.kind = "list" THEN JoinTexts(content.parts)
  ELSE <<>>

\* `choice?.delta || choice?.message || {}`
DeltaOf(choice) ==
  IF choice.delta.present THEN choice.delta
  ELSE IF choice.message.present THEN choice.message
  ELSE Holder(NoContent)

\* The loop body trying the choices before the error field.
ClassifyChoicesFirst(evt) ==
  IF ~evt.ok THEN NoCalls
  ELSE IF evt.type = "message.output.delta" THEN Emit(evt.content)
  ELSE IF evt.type = "conversation.response.done"
    THEN [calls |-> <<Call("onDone", <<>>)>>, stop |-> FALSE]
  ELSE IF Len(evt.choices) > 0
    THEN Emit(extractTextFromDeltaContent(DeltaOf(evt.choices[1]).content))
  ELSE IF Truthy(evt)
    THEN [calls |-> <<Call("onError", StringOf(evt))>>, stop |-> TRUE]
  ELSE NoCalls

\* The classification of an event in the loop body: the callbacks it makes and
\* whether it returns from the function.
Classify(evt) ==
  IF ~evt.ok THEN NoCalls
  ELSE IF evt.type = "message.output.delta" THEN Emit(evt.content)
  ELSE IF evt.type = "conversation.response.done"
    THEN [calls |-> <<Call("onDone", <<>>)>>, stop |-> FALSE]
  ELSE IF Truthy(evt)
    THEN [calls |-> <<Call("onError", StringOf(evt))>>, stop |-> TRUE]
  ELSE IF Len(evt.choices) > 0
    THEN Emit(extractTextFromDeltaContent(DeltaOf(evt.choices[1]).content))
  ELSE NoCalls

\* The body of `for (const frame of frames)` for one frame.
ProcessFrame(frame) == Classify(extractDataJsonFromFrame(frame))

\* The callbacks of a frame placed before those of the frames ahead of it.
ThenReversed(r, rest) == [calls |-> rest.calls \o r.calls, stop |-> rest.stop]

\* The callbacks of a frame, then those of the frames after it.
Then(r, rest) == [calls |-> r.calls \o rest.calls, stop |-> rest.stop]

\* `for (const frame of frames)`, left by the return of an error frame.
RECURSIVE ProcessFrames(_)
RECURSIVE After(_, _)
After(r, frames) == IF r.stop THEN r ELSE Then(r, ProcessFrames(frames))

ProcessFrames(frames) ==
  IF frames = <<>> THEN NoCalls ELSE After(ProcessFrame(Head(frames)), Tail(frames))

\* `frames.pop() || ""`
Remainder(parts) == parts[Len(parts)]

\* The frames of a split buffer: all parts but the last.
Complete(parts) == SubSeq(parts, 1, Len(parts) - 1)

LoopTurn(pend, parts) ==
  [pending |-> pend, buffer |-> Remainder(parts)] @@ ProcessFrames(Complete(parts))

Buffered(buf, d) == LoopTurn(d.pending, Split(buf \o d.chars, <<NL, NL>>))

\* One turn of the read loop on a chunk: the decoder's and the buffer's new
\* state, the callbacks made, and whether the function returned.
ProcessChunk(pend, buf, bytes) == Buffered(buf, Decode(pend, bytes))

--------------------------------------------------------------------------
\* streamMistralReply

\* A call of streamMistralReply whose response body, when there is one, is
\* made of at most MaxFrames frames of the list above. The handler is not
\* running.
InitFramer ==
  /\ method = "POST"
  /\ apiKey = TRUE
  /\ body = "jsonString"
  /\ payloadModel = NoModel
  /\ HandlerStart
  /\ frameList \in FrameLists
  /\ stream = StreamOf(frameList)
  /\ ClientIdle
  /\ AppIdle

\* The function makes its last callbacks and returns.
Return(newCalls, ending) ==
  /\ calls' = calls \o newCalls
  /\ cpc' = "returned"
  /\ chist' = [chist EXCEPT !.ending = ending]

\* onStart(assistantId), then the fetch is issued.
ReplyStart ==
  /\ cpc = "idle"
  /\ calls' = <<Call("onStart", <<>>)>>
  /\ cpc' = "fetching"
  /\ UNCHANGED <<app, server, frameList, stream, pos, pending, buffer, signalAborted, chist>>

\* The fetch rejects with a network error: onError(message).
ReplyFetchRejects ==
  /\ cpc = "fetching"
  /\ ~signalAborted
  /\ Return(<<Call("onError", <<"Failed to fetch">>)>>, "fetchError")
  /\ UNCHANGED <<app, server, frameList, stream, pos, pending, buffer, signalAborted>>

\* The fetch rejects with the AbortError of the signal: onAbort.
ReplyFetchAborted ==
  /\ cpc = "fetching"
  /\ signalAborted
  /\ Return(<<Call("onAbort", <<>>)>>, "abort")
  /\ UNCHANGED <<app, server, frameList, stream, pos, pending, buffer, signalAborted>>

\* !res.ok: the function goes on to read the error text.
ReplyNotOk ==
  /\ cpc = "fetching"
  /\ ~signalAborted
  /\ cpc' = "errtext"
  /\ UNCHANGED <<app, server, frameList, stream, pos, pending, buffer, calls, signalAborted, chist>>

\* `await res.text()` ends: onError with the text found, or with the default
\* text when the read failed (as it does after an abort).
ReplyErrorText ==
  /\ cpc = "errtext"
  /\ \E t \in (IF signalAborted THEN {"API error 500"} ELSE {"API error 500", "E1"}) :
       Return(<<Call("onError", <<t>>)>>, "httpError")
  /\ UNCHANGED <<app, server, frameList, stream, pos, pending, buffer, signalAborted>>

\* !res.body
ReplyNoBody ==
  /\ cpc = "fetching"
  /\ ~signalAborted
  /\ Return(<<Call("onError", <<"No response body from server.">>)>>, "noBody")
  /\ UNCHANGED <<app, server, frameList, stream, pos, pending, buffer, signalAborted>>

\* res.body.getReader(), new TextDecoder, buffer = "".
ReplyGetReader ==
  /\ cpc = "fetching"
  /\ ~signalAborted
  /\ cpc' = "reading"
  /\ UNCHANGED <<app, server, frameList, stream, pos, pending, buffer, calls, signalAborted, chist>>

\* reader.read() delivers the next k bytes and the loop body runs on them. A
\* body whose signal is aborted is errored and delivers nothing more.
ReplyReadChunk ==
  /\ cpc = "reading"
  /\ ~signalAborted
  /\ \E k \in 1..(Len(stream) - pos) :
     \E r \in {ProcessChunk(pending, buffer, SubSeq(stream, pos + 1, pos + k))} :
          /\ pos' = pos + k
          /\ pending' = r.pending
          /\ buffer' = r.buffer
          /\ calls' = calls \o r.calls
          /\ cpc' = IF r.stop THEN "returned" ELSE "reading"
          /\ chist' = [chist EXCEPT
                 !.ending = IF r.stop THEN "errorFrame" ELSE @,
                 !.splitUtf8 = @ \/ r.pending # <<>>,
                 !.splitDelimiter = @ \/ (/\ pos + k < Len(stream)
                                          /\ stream[pos + k] = NL
                                          /\ stream[pos + k + 1] = NL)]
  /\ UNCHANGED <<app, server, frameList, stream, signalAborted>>

\* reader.read() reports the end of the body, wherever it falls: break, then
\* onDone.
ReplyReadDone ==
  /\ cpc = "reading"
  /\ ~signalAborted
  /\ Return(<<Call("onDone", <<>>)>>, "eof")
  /\ UNCHANGED <<app, server, frameList, stream, pos, pending, buffer, signalAborted>>

\* reader.read() rejects with a transport error: onError(message).
ReplyReadRejects ==
  /\ cpc = "reading"
  /\ ~signalAborted
  /\ Return(<<Call("onError", <<"network error">>)>>, "readError")
  /\ UNCHANGED <<app, server, frameList, stream, pos, pending, buffer, signalAborted>>

\* reader.read() rejects with the AbortError of the signal: onAbort.
ReplyReadAborted ==
  /\ cpc = "reading"
  /\ signalAborted
  /\ Return(<<Call("onAbort", <<>>)>>, "abort")
  /\ UNCHANGED <<app, server, frameList, stream, pos, pending, buffer, signalAborted>>

\* The caller aborts the signal while the function waits: for the fetch, for
\* the error text, or for a read.
SignalAbort ==
  /\ cpc \in {"fetching", "errtext", "reading"}
  /\ ~signalAborted
  /\ signalAborted' = TRUE
  /\ chist' = [chist EXCEPT !.abortAt = Len(calls), !.abortIn = cpc]
  /\ UNCHANGED <<app, server, frameList, stream, pos, pending, buffer, calls, cpc>>

NextFramer ==
  \/ ReplyStart
  \/ ReplyFetchRejects
  \/ ReplyFetchAborted
  \/ ReplyNotOk
  \/ ReplyErrorText
  \/ ReplyNoBody
  \/ ReplyGetReader
  \/ ReplyReadChunk
  \/ ReplyReadDone
  \/ ReplyReadRejects
  \/ ReplyReadAborted
  \/ SignalAbort

SpecFramer == InitFramer /\ [][NextFramer]_vars

\* The same call on response bodies made of the frames of ShapeFrames.
InitShapes ==
  /\ method = "POST"
  /\ apiKey = TRUE
  /\ body = "jsonString"
  /\ payloadModel = NoModel
  /\ HandlerStart
  /\ frameList \in ShapeLists
  /\ stream = StreamOf(frameList)
  /\ ClientIdle
  /\ AppIdle

SpecShapes == InitShapes /\ [][NextFramer]_vars

--------------------------------------------------------------------------
\* Properties of the stream framer (checked under SpecFramer)

\* The bytes read so far, and the run of the read loop that gets them as one
\* chunk.
Received == SubSeq(stream, 1, pos)

SingleChunk == ProcessChunk(<<>>, <<>>, Received)

Started == <<Call("onStart", <<>>)>>

Completed == <<Call("onDone", <<>>)>>

\* C15: however the bytes read so far were split into chunks, the callbacks
\* made are those of the run that reads the same bytes as a single chunk:
\* the same tokens in the same order, the same error return, and the same
\* completion at the end of the stream.
C15_ChunkingInvariant ==
  (cpc = "reading" \/ chist.ending \in {"errorFrame", "eof"}) =>
     \E one \in {SingleChunk} :
        /\ one.stop = (chist.ending = "errorFrame")
        /\ calls = Started \o one.calls \o
                     (IF chist.ending = "eof" THEN Completed ELSE <<>>)

\* C15 witness: a stream read to its end with one chunk boundary inside the
\* two-byte character and one between the two newlines of a delimiter, whose
\* tokens arrived whole.
C15_Witness ==
  /\ chist.ending = "eof"
  /\ chist.splitUtf8
  /\ chist.splitDelimiter
  /\ calls = Started \o <<Call("onToken", <<EAcute>>), Call("onToken", <<"a">>)>>
               \o Completed

Terminals == {"onDone", "onError", "onAbort"}

Count(cb) == Cardinality({i \in 1..Len(calls) : calls[i].cb = cb})

\* C16: at most one terminal callback is made, no callback follows it, and a
\* run that has returned has made one.
C16_OneTerminal ==
  LET T == {i \in 1..Len(calls) : calls[i].cb \in Terminals}
  IN /\ Cardinality(T) <= 1
     /\ \A i \in T : i = Len(calls)
     /\ cpc = "returned" => T # {}

\* C17: a delta frame followed by a conversation.response.done frame yields
\* the token and then the completion, and no token is emitted after a
\* completion.
C17_StopsAtTerminalFrame ==
  /\ (frameList = <<"delta", "done">> /\ pos = Len(stream)) =>
        SubSeq(calls, 1, 3) = Started \o <<Call("onToken", <<"a">>)>> \o Completed
  /\ \A i, j \in 1..Len(calls) :
        (i < j /\ calls[i].cb = "onDone") => calls[j].cb # "onToken"

\* C18: a run aborted while the request is unanswered or while the read loop
\* is active makes onAbort exactly once when it returns, makes neither
\* onError nor onDone, and emits no token after the abort.
C18_AbortYieldsOnlyAbort ==
  (signalAborted /\ chist.abortIn \in {"fetching", "reading"}) =>
     /\ Count("onAbort") = (IF cpc = "returned" THEN 1 ELSE 0)
     /\ Count("onError") = 0
     /\ Count("onDone") = 0
     /\ \A i \in (chist.abortAt + 1)..Len(calls) : calls[i].cb # "onToken"

\* The frames without a data line, with the payload [DONE], or with a payload
\* that is no JSON.
SkipFrames == {"doneMarker", "badJson", "comment"}

Kept == SelectSeq(frameList, LAMBDA f : f \notin SkipFrames)

\* C19: a stream containing frames without a data line, with payload [DONE]
\* or with an unparsable payload produces, once read, exactly the callbacks
\* of the stream without those frames: they add no token and no terminal
\* callback, and the frames after them are processed.
C19_SkippedFrames ==
  ((\E i \in 1..Len(frameList) : frameList[i] \in SkipFrames)
     /\ \/ cpc = "reading" /\ pos = Len(stream)
        \/ chist.ending = "eof" /\ pos = Len(stream)
        \/ chist.ending = "errorFrame") =>
     calls = Started \o ProcessChunk(<<>>, <<>>, StreamOf(Kept)).calls \o
               (IF chist.ending = "eof" THEN Completed ELSE <<>>)

\* C19 witness: the delta frame after an unparsable frame gave its token and
\* the stream completed.
C19_Witness ==
  /\ frameList = <<"badJson", "delta">>
  /\ chist.ending = "eof"
  /\ calls = Started \o <<Call("onToken", <<"a">>)>> \o Completed

\* The text an error frame is to signal: the string itself, the JSON form of
\* an object.
ErrorFieldText ==
  [ errorString |-> <<"a">>,
    errorObject |-> <<"{\"message\":\"", "a", "\"}">> ]

\* C20: once an error frame at the head of the stream has been read, the run
\* has returned and its only callback after onStart is onError with the
\* field's string value, or with its JSON form when the field is an object.
C20_ErrorFrame ==
  (frameList # <<>> /\ Head(frameList) \in DOMAIN ErrorFieldText
     /\ pos >= Len(Frames[Head(frameList)]) + 2) =>
     /\ cpc = "returned"
     /\ calls = Started \o <<Call("onError", ErrorFieldText[Head(frameList)])>>

--------------------------------------------------------------------------
\* Tokens, end of input and classification (SpecFramer and SpecShapes)

\* The texts a frame is to yield as tokens, for the frames that carry neither a
\* terminal marker nor an error: none for the frames that are skipped or empty.
FrameTokens ==
  [ delta           |-> <<<<"a">>>>,
    deltaUtf8       |-> <<<<EAcute>>>>,
    choices         |-> <<<<"a">>>>,
    doneMarker      |-> <<>>,
    badJson         |-> <<>>,
    comment         |-> <<>>,
    choicesMessage  |-> <<<<"a">>>>,
    choicesSegments |-> <<<<"a", "b">>>>,
    choicesBlank    |-> <<>>,
    choicesNone     |-> <<>> ]

TokenCallsOf(texts) == [i \in 1..Len(texts) |-> Call("onToken", texts[i])]

RECURSIVE TokenCalls(_)
TokenCalls(fl) ==
  IF fl = <<>> THEN <<>> ELSE TokenCallsOf(FrameTokens[Head(fl)]) \o TokenCalls(Tail(fl))

\* The frames with a non-empty choices list and no other field.
ChoiceFrames == {"choices", "choicesMessage", "choicesSegments", "choicesBlank"}

\* C21: a stream of completions-shape frames yields, frame by frame, the first
\* choice's delta content, or its message content when it has no delta: the
\* string itself, the concatenation of the texts of a segment list, and no
\* token when that is empty.
C21_ChoicesToken ==
  ((\A i \in 1..Len(frameList) : frameList[i] \in ChoiceFrames)
     /\ pos = Len(stream)
     /\ (cpc = "reading" \/ chist.ending = "eof")) =>
     calls = Started \o TokenCalls(frameList) \o
               (IF chist.ending = "eof" THEN Completed ELSE <<>>)

\* C21 witness: a segment list gave the token "ab", then the message content
\* of a first choice without a delta gave "a".
C21_Witness ==
  /\ frameList = <<"choicesSegments", "choicesMessage">>
  /\ chist.ending = "eof"
  /\ calls = Started \o <<Call("onToken", <<"a", "b">>), Call("onToken", <<"a">>)>>
               \o Completed

\* How many frames of the list have arrived with their delimiter in the first
\* n bytes.
RECURSIVE CompleteCount(_, _)
CompleteCount(fl, n) ==
  IF fl = <<>> \/ Len(AllFrames[Head(fl)]) + 2 > n THEN 0
  ELSE 1 + CompleteCount(Tail(fl), n - Len(AllFrames[Head(fl)]) - 2)

Arrived == SubSeq(frameList, 1, CompleteCount(frameList, pos))

\* C22: when the body ends and none of the frames that arrived complete is a
\* terminal marker or an error, the callbacks are the tokens of those frames
\* in their order of arrival, then onDone.
C22_DoneAfterTokens ==
  (chist.ending = "eof" /\ \A i \in 1..Len(Arrived) : Arrived[i] \in DOMAIN FrameTokens) =>
     calls = Started \o TokenCalls(Arrived) \o Completed

\* C22 witness: two delta frames arrived, their tokens were emitted in that
\* order and the end of the body completed the run.
C22_Witness ==
  /\ frameList = <<"delta", "deltaUtf8">>
  /\ chist.ending = "eof"
  /\ calls = Started \o <<Call("onToken", <<"a">>), Call("onToken", <<EAcute>>)>>
               \o Completed

\* The fields of the frames of ShapeFrames that the classification looks at:
\* the type, the error field (absent, the empty string, or the text "e") and
\* the text of the first choice, if there is a choice.
ShapeFields ==
  [ choices              |-> [type |-> "", error |-> "absent", choice |-> <<<<"a">>>>],
    choicesMessage       |-> [type |-> "", error |-> "absent", choice |-> <<<<"a">>>>],
    choicesSegments      |-> [type |-> "", error |-> "absent", choice |-> <<<<"a", "b">>>>],
    choicesBlank         |-> [type |-> "", error |-> "absent", choice |-> <<<<>>>>],
    choicesNone          |-> [type |-> "", error |-> "absent", choice |-> <<>>],
    errorAndChoices      |-> [type |-> "", error |-> "text", choice |-> <<<<"a">>>>],
    blankErrorAndChoices |-> [type |-> "", error |-> "blank", choice |-> <<<<"a">>>>],
    deltaAndError        |-> [type |-> "delta", error |-> "text", choice |-> <<>>],
    doneAndChoices       |-> [type |-> "done", error |-> "absent", choice |-> <<<<"a">>>>] ]

NonEmpty(texts) == SelectSeq(texts, LAMBDA t : t # <<>>)

\* The callbacks of a frame under the priority delta type, terminal type,
\* error field, choices, where the error fields in errs count as errors.
ByPriority(f, errs) ==
  IF f.type = "delta" THEN <<Call("onToken", <<"a">>)>>
  ELSE IF f.type = "done" THEN Completed
  ELSE IF f.error \in errs
    THEN <<Call("onError", IF f.error = "text" THEN <<"e">> ELSE <<>>)>>
  ELSE TokenCallsOf(NonEmpty(f.choice))

HeadRead ==
  /\ frameList # <<>>
  /\ pos = Len(AllFrames[Head(frameList)]) + 2
  /\ (cpc = "reading" \/ chist.ending = "errorFrame")

C28_ResidualFrameEmitted ==
  (chist.ending = "eof" /\ frameList # <<>> /\ pos >= Len(stream) - 2
     /\ \A i \in 1..Len(frameList) : frameList[i] \in DOMAIN FrameTokens) =>
     calls = Started \o TokenCalls(frameList) \o Completed

(***************************************************************************)
(* runEvalForModel: the callbacks it hands to streamMistralReply.  onDone, *)
(* onError and onAbort each call recordMistralMetric once, synchronously;  *)
(* onStart and onToken record nothing.                                     *)
(***************************************************************************)

\* The metric a callback of runEvalForModel records: its success flag.
EvalMetricOf(call) ==
  IF call.cb = "onDone" THEN <<[success |-> TRUE]>>
  ELSE IF call.cb \in {"onError", "onAbort"} THEN <<[success |-> FALSE]>>
  ELSE <<>>

\* The metrics recorded by a run that made the callbacks cs, in order.
RECURSIVE EvalMetrics(_)
EvalMetrics(cs) ==
  IF cs = <<>> THEN <<>> ELSE EvalMetricOf(Head(cs)) \o EvalMetrics(Tail(cs))

\* C29: a run of runEvalForModel that has returned has recorded exactly one
\* metric, with success = TRUE exactly when the body was read to its end
\* without an error frame and without an abort; a run under way has recorded
\* at most one.
C29_OneMetricPerRun ==
  \E ms \in {EvalMetrics(calls)} :
     /\ Len(ms) <= 1
     /\ cpc = "returned" =>
          /\ Len(ms) = 1
          /\ ms[1].success = (chist.ending = "eof")

(***************************************************************************)
(* The fallback loop after the controller is aborted.                      *)
(***************************************************************************)

\* C27: once the AbortController is aborted, the loop makes no further
\* attempt: no fetch is called for the remaining (candidate, shape) pairs.
C27_NoAttemptAfterAbort == [][aborted => issued' = issued]_vars

\* C27 amended: once the AbortController is aborted no upstream connection is
\* opened, although the loop goes on calling fetch for the remaining pairs;
\* each attempt issued on the aborted signal can only reject with the abort
\* error.
C27_NoConnectionAfterAbort ==
  [][aborted =>
       /\ open' \subseteq open
       /\ (Len(issued') > Len(issued)) => (up'.n \notin open' /\ up'.kind = "pending")
       /\ (pc = "fetching" /\ up.n \notin open /\ pc' # pc) =>
            (pc' = "loop" /\ hist'.lastKind = "throw" /\ hist'.lastText = AbortMsg)]_vars

\* C27 witness: the attempt before this one was rejected by the abort, and the
\* loop has called fetch for the next pair without a connection being opened.
C27_Witness ==
  /\ pc = "fetching"
  /\ aborted
  /\ Len(issued) >= 2
  /\ hist.lastKind = "throw"
  /\ hist.lastText = AbortMsg
  /\ open = {}

(***************************************************************************)
(* metricsStore: recordMistralMetric, subscribeToMetrics and the function  *)
(* subscribeToMetrics returns.  An entry is the ordinal of the call that   *)
(* recorded it; the entries loaded from storage at module load are those   *)
(* of earlier sessions, numbered 0, -1, -2, ... from the newest.           *)
(***************************************************************************)

MAX_METRICS == 200

MaxRecords == 3

\* The listeners that may subscribe (the setMetrics of a Dashboard).
Listeners == {"l1", "l2"}

\* loadFromStorage(): k valid entries, newest first.
loadFromStorage(k) == [i \in 1..k |-> 1 - i]

\* What persist() of earlier sessions can have left in storage.
LoadedCounts == {0, MAX_METRICS - 1, MAX_METRICS}

KeepEverything(s, n) == s

\* s.slice(0, n)
Slice(s, n) == SubSeq(s, 1, IF Len(s) < n THEN Len(s) ELSE n)

\* notify(): every listener of the Set is called with the snapshot; what a
\* listener throws is swallowed.
Notify(ls, snapshot, delivered) ==
  [l \in Listeners |-> IF l \in ls THEN snapshot ELSE delivered[l]]

\* No snapshot was delivered to the listener yet.
Undelivered == <<"none">>

ServerIdle ==
  /\ method = "POST"
  /\ apiKey = TRUE
  /\ body = "jsonString"
  /\ payloadModel = NoModel
  /\ HandlerStart

InitMetrics ==
  /\ ServerIdle
  /\ NoReply
  /\ PageIdle
  /\ BodiesIdle
  /\ \E k \in LoadedCounts :
       /\ metricsCache = loadFromStorage(k)
       /\ storage = loadFromStorage(k)
       /\ mhist = [loaded |-> k, recorded |-> 0, last |-> "load",
                   subscription |-> [l \in Listeners |-> "never"],
                   delivered |-> [l \in Listeners |-> Undelivered]]
  /\ listeners = {}

\* recordMistralMetric(metric): prepend, slice, persist(), notify().  The
\* write to storage can fail (quota), which persist() ignores.
recordMistralMetric ==
  /\ mhist.recorded < MaxRecords
  /\ \E entry \in {mhist.recorded + 1} :
       /\ metricsCache' = Slice(<<entry>> \o metricsCache, MAX_METRICS)
       /\ storage' \in {metricsCache', storage}
       /\ mhist' = [mhist EXCEPT !.recorded = entry, !.last = "record",
                                  !.delivered = Notify(listeners, metricsCache', @)]
  /\ UNCHANGED <<server, client, page, bodies, listeners>>

\* subscribeToMetrics(listener): add to the Set, call it with the cache.
subscribeToMetrics(l) ==
  /\ listeners' = listeners \cup {l}
  /\ mhist' = [mhist EXCEPT !.last = "subscribe", !.subscription[l] = "subscribed",
                             !.delivered[l] = metricsCache]
  /\ UNCHANGED <<server, client, page, bodies, metricsCache, storage>>

\* The function subscribeToMetrics(l) returned: listeners.delete(l).
unsubscribe(l) ==
  /\ mhist.subscription[l] # "never"
  /\ listeners' = listeners \ {l}
  /\ mhist' = [mhist EXCEPT !.last = "unsubscribe", !.subscription[l] = "unsubscribed"]
  /\ UNCHANGED <<server, client, page, bodies, metricsCache, storage>>

NextMetrics ==
  \/ recordMistralMetric
  \/ \E l \in Listeners : subscribeToMetrics(l)
  \/ \E l \in Listeners : unsubscribe(l)

SpecMetrics == InitMetrics /\ [][NextMetrics]_vars

\* The calls recorded so far and the entries loaded, newest first, cut at n.
MostRecent(n) ==
  [i \in 1..(IF mhist.recorded + mhist.loaded < n THEN mhist.recorded + mhist.loaded ELSE n)
     |-> mhist.recorded + 1 - i]

\* C24: the cache holds at most 200 entries, the most recent calls newest
\* first; after a record every subscribed listener has received that
\* snapshot; a listener whose unsubscribe function has run receives nothing
\* any more.
C24_MetricsCache ==
  /\ [](/\ Len(metricsCache) <= MAX_METRICS
        /\ metricsCache = MostRecent(MAX_METRICS)
        /\ \A l \in Listeners :
              mhist.subscription[l] = "subscribed" => mhist.delivered[l] = metricsCache)
  /\ [][\A l \in Listeners :
          (mhist.subscription[l] = "unsubscribed" /\ mhist'.subscription[l] = "unsubscribed")
             => mhist'.delivered[l] = mhist.delivered[l]]_vars

\* C24 witness: the cap has cut the oldest entry off, one listener holds the
\* snapshot of the last record and one that unsubscribed holds an older one.
C24_Witness ==
  /\ mhist.last = "record"
  /\ mhist.recorded + mhist.loaded > MAX_METRICS
  /\ Len(metricsCache) = MAX_METRICS
  /\ \E l, u \in Listeners :
       /\ mhist.subscription[l] = "subscribed"
       /\ mhist.delivered[l] = metricsCache
       /\ mhist.subscription[u] = "unsubscribed"
       /\ mhist.delivered[u] \notin {metricsCache, Undelivered}

(***************************************************************************)
(* The handler's message list for the chat/completions body.  A content is *)
(* kept as its type (a string, or an array of segments), the caller        *)
(* message it comes from (0 for a message the handler makes) and what the  *)
(* handler added to it.                                                    *)
(***************************************************************************)

MaxMessages == 2

Content(kind, of, extras) == [kind |-> kind, of |-> of, extras |-> extras]

Message(role, content) == [role |-> role, content |-> content]

\* The caller's i-th message: a role and a content of one of the two types.
CallerMessages(i) ==
  {Message(r, Content(k, i, <<>>)) : r \in {"user", "assistant"}, k \in {"string", "array"}}

\* payload.messages: up to MaxMessages messages.
MessageLists ==
  UNION {{ms \in [1..n -> UNION {CallerMessages(i) : i \in 1..n}] :
            \A i \in 1..n : ms[i] \in CallerMessages(i)} : n \in 0..MaxMessages}

InstructionTexts == {"", "be brief"}

\* What the attachments amount to: text extracted from files, images, and
\* whether the model name contains "pixtral".
Attachments == [extractedText : BOOLEAN, images : BOOLEAN, pixtral : BOOLEAN]

KeepString(m) == m.content.kind = "string"

\* messages.filter((m) => m && typeof m.content === "string")
FilterStringContent(ms) == SelectSeq(ms, KeepString)

\* The optional system message.
SystemMessage(instr) ==
  IF instr # "" THEN <<Message("system", Content("string", 0, <<"instructions">>))>>
  ELSE <<>>

\* chatMessages.filter((m) => m.role === "user").pop(), as its index; 0 if none.
RECURSIVE LastUser(_, _)
LastUser(cm, i) ==
  IF i = 0 THEN 0 ELSE IF cm[i].role = "user" THEN i ELSE LastUser(cm, i - 1)

mergeWithAdditionalText(content, extra) == [content EXCEPT !.extras = @ \o <<extra>>]

toVisionContent(message, extra) ==
  Content("array", message.content.of, message.content.extras \o extra)

\* chatMessages[lastIndex] = { ...lastUserMessage, content }
WithContent(cm, i, content) == [cm EXCEPT ![i].content = content]

\* chatMessages.push({ role: "user", content: extractedText.trim() })
PushExtracted(cm) == Append(cm, Message("user", Content("string", 0, <<"extracted">>)))

Extra(att) == IF att.extractedText THEN <<"extracted">> ELSE <<>>

\* The vision branch and the extracted-text branch.
AddAttachments(cm, att) ==
  IF att.images /\ att.pixtral
  THEN IF LastUser(cm, Len(cm)) # 0
       THEN WithContent(cm, LastUser(cm, Len(cm)),
              [toVisionContent(cm[LastUser(cm, Len(cm))], Extra(att))
                 EXCEPT !.extras = @ \o <<"images">>])
       ELSE IF att.extractedText THEN PushExtracted(cm) ELSE cm
  ELSE IF att.extractedText
       THEN IF LastUser(cm, Len(cm)) # 0
            THEN WithContent(cm, LastUser(cm, Len(cm)),
                   mergeWithAdditionalText(cm[LastUser(cm, Len(cm))].content, "extracted"))
            ELSE PushExtracted(cm)
       ELSE cm

\* The note about images a model without vision cannot read.
AddNote(cm, att) ==
  IF att.images /\ ~att.pixtral /\ LastUser(cm, Len(cm)) # 0
  THEN WithContent(cm, LastUser(cm, Len(cm)),
         mergeWithAdditionalText(cm[LastUser(cm, Len(cm))].content, "note"))
  ELSE cm

\* chatMessages as chatBodyBase carries it.
ChatMessages(instr, ms, att) ==
  AddNote(AddAttachments(SystemMessage(instr) \o FilterStringContent(ms), att), att)

InitBodies ==
  /\ ServerIdle
  /\ NoReply
  /\ PageIdle
  /\ MetricsIdle
  /\ messages \in MessageLists
  /\ instructions \in InstructionTexts
  /\ attached \in Attachments
  /\ chatMessages = Unbuilt

BuildChatMessages ==
  /\ chatMessages = Unbuilt
  /\ chatMessages' = ChatMessages(instructions, messages, attached)
  /\ UNCHANGED <<server, client, metrics, page, messages, instructions, attached>>

NextBodies == BuildChatMessages

SpecBodies == InitBodies /\ [][NextBodies]_vars

\* C23: the message list of the completions-shape body is the system message,
\* present exactly when instructions is non-empty, followed by every caller
\* message in its original order with its role, whether its content is a
\* string or a segment list; without attachments the contents are the
\* caller's own.
C23_EveryCallerMessage ==
  chatMessages # Unbuilt =>
     \E sys \in {IF instructions # "" THEN 1 ELSE 0} :
        /\ Len(chatMessages) >= sys + Len(messages)
        /\ sys = 1 => chatMessages[1].role = "system"
        /\ \A i \in 1..Len(messages) :
              /\ chatMessages[sys + i].role = messages[i].role
              /\ chatMessages[sys + i].content.of = i
              /\ chatMessages[sys + i].content.kind = "array" =>
                    (messages[i].content.kind = "array" \/ attached.images)
        /\ (~attached.extractedText /\ ~attached.images) =>
              SubSeq(chatMessages, sys + 1, Len(chatMessages)) = messages

(***************************************************************************)
(* The chat page (Index.tsx): handleSendMessage, handleGenerateImage,      *)
(* handleAbortStreaming and the callbacks that end a generation.  A        *)
(* generation is named by its position in `generations`; its assistant id  *)
(* and its AbortController carry the same name.  Each handler runs on the  *)
(* page's latest state, and the part of a handler between two awaits is    *)
(* one step.                                                               *)
(***************************************************************************)

MaxGenerations == 3

Generation(kind, phase) == [kind |-> kind, phase |-> phase, aborted |-> FALSE, ended |-> "no"]

InitPage ==
  /\ ServerIdle
  /\ NoReply
  /\ MetricsIdle
  /\ BodiesIdle
  /\ PageIdle

\* handleSendMessage up to its first await: with files it waits for
\* prepareAttachments, without files it goes on to start the stream.
\* streamMistralReply calls onStart before its own first await, so the
\* controller and the assistant id are set in the same step.
handleSendMessage(files) ==
  /\ streamingAssistantId = NoGeneration
  /\ Len(generations) < MaxGenerations
  /\ IF files
     THEN /\ generations' = Append(generations, Generation("chat", "preparing"))
          /\ UNCHANGED <<streamingAssistantId, streamAbortController>>
     ELSE /\ generations' = Append(generations, Generation("chat", "streaming"))
          /\ streamAbortController' = Len(generations) + 1
          /\ streamingAssistantId' = Len(generations) + 1
  /\ UNCHANGED <<server, client, metrics, bodies>>

\* handleSendMessage after `await prepareAttachments(files)`, resolved or
\* rejected: new AbortController, setStreamAbortController, streamMistralReply.
AttachmentsPrepared(g) ==
  /\ generations[g].phase = "preparing"
  /\ generations' = [generations EXCEPT ![g].phase = "streaming"]
  /\ streamAbortController' = g
  /\ streamingAssistantId' = g
  /\ UNCHANGED <<server, client, metrics, bodies>>

\* handleGenerateImage up to `await generateImagesViaAgent`.
handleGenerateImage ==
  /\ streamingAssistantId = NoGeneration
  /\ Len(generations) < MaxGenerations
  /\ generations' = Append(generations, Generation("image", "generating"))
  /\ streamAbortController' = Len(generations) + 1
  /\ streamingAssistantId' = Len(generations) + 1
  /\ UNCHANGED <<server, client, metrics, bodies>>

\* handleAbortStreaming: abort the controller the page holds, clear both.
handleAbortStreaming ==
  /\ streamAbortController # NoGeneration \/ streamingAssistantId # NoGeneration
  /\ generations' = IF streamAbortController # NoGeneration
                    THEN [generations EXCEPT ![streamAbortController].aborted = TRUE]
                    ELSE generations
  /\ streamAbortController' = NoGeneration
  /\ streamingAssistantId' = NoGeneration
  /\ UNCHANGED <<server, client, metrics, bodies>>

\* finalizeAssistantStreaming(assistantId, note): both states are cleared,
\* whichever generation they refer to.
finalizeAssistantStreaming(g, how) ==
  /\ generations' = [generations EXCEPT ![g].phase = "ended", ![g].ended = how]
  /\ streamingAssistantId' = NoGeneration
  /\ streamAbortController' = NoGeneration
  /\ UNCHANGED <<server, client, metrics, bodies>>

\* onDone, onError or onAbort of the stream of generation g; onAbort needs
\* the aborted signal.
StreamCallback(g) ==
  /\ generations[g].phase = "streaming"
  /\ \E cb \in {"onDone", "onError"} \cup (IF generations[g].aborted THEN {"onAbort"} ELSE {}) :
       finalizeAssistantStreaming(g, cb)

\* generateImagesViaAgent settles: the try or the catch of handleGenerateImage.
ImageSettled(g) ==
  /\ generations[g].phase = "generating"
  /\ \E how \in {"success", "failure"} \cup (IF generations[g].aborted THEN {"cancel"} ELSE {}) :
       finalizeAssistantStreaming(g, how)

NextPage ==
  \/ \E files \in BOOLEAN : handleSendMessage(files)
  \/ \E g \in 1..Len(generations) : AttachmentsPrepared(g)
  \/ handleGenerateImage
  \/ handleAbortStreaming
  \/ \E g \in 1..Len(generations) : StreamCallback(g)
  \/ \E g \in 1..Len(generations) : ImageSettled(g)

SpecPage == InitPage /\ [][NextPage]_vars

\* The generations that have started and have neither ended nor been
\* cancelled by the user.
InFlight ==
  {g \in 1..Len(generations) :
     generations[g].phase \in {"streaming", "generating"} /\ ~generations[g].aborted}

\* C25: at most one generation, chat stream or image generation, is in
\* flight at any time.
C25_OneGeneration == Cardinality(InFlight) <= 1

\* C30: the callback that ends a generation leaves streamingAssistantId and
\* streamAbortController alone when they refer to a later generation.
C30_LaterStreamKept ==
  [][\A a \in 1..Len(generations) :
       (generations[a].phase # "ended" /\ generations'[a].phase = "ended") =>
          /\ streamingAssistantId > a => streamingAssistantId' = streamingAssistantId
          /\ streamAbortController > a => streamAbortController' = streamAbortController]_vars

====
